---- MODULE Spec2Model ----
(***************************************************************************)
(* Model of the dataset construction pipeline of Codes/dataset.py          *)
(* (class DatasetProvider) and of the evaluation part of Codes/cnn.py.     *)
(*                                                                         *)
(* Strings whose characters the code looks at (document words, raw codes,  *)
(* file names) are sequences of one-character strings; Str joins them into *)
(* the string the code uses as a dictionary key.  A python dict is a       *)
(* function whose DOMAIN is its key set; a Counter is the sequence of its  *)
(* <<key, count>> items in insertion order.                                *)
(***************************************************************************)
EXTENDS Integers, Sequences, FiniteSets, TLC

\* ---------------------------------------------------------------- bounds
MaxWords == 3           \* whitespace-separated words in the whole corpus
MaxRows == 3            \* rows in the three code tables together
EvalRows == 2           \* the same, for the runs of cnn.py
MaxMinTokenFreq == 1    \* min_token_freq ranges over 0..MaxMinTokenFreq
MaxMaxTokens == 2       \* max_tokens_in_file ranges over 1..MaxMaxTokens
MaxMinExamples == 1     \* min_examples_per_code ranges over 0..MaxMinExamples
MaxMaxlen == 1          \* finite maxlen arguments of load: 1..MaxMaxlen

\* ------------------------------------------------------------ characters
LowerLetters ==
  {"a","b","c","d","e","f","g","h","i","j","k","l","m",
   "n","o","p","q","r","s","t","u","v","w","x","y","z"}

UpperLetters ==
  {"A","B","C","D","E","F","G","H","I","J","K","L","M",
   "N","O","P","Q","R","S","T","U","V","W","X","Y","Z"}

\* str.lower() on one character
LowerChar(c) ==
  CASE c = "A" -> "a" [] c = "B" -> "b" [] c = "C" -> "c" [] c = "D" -> "d"
    [] c = "E" -> "e" [] c = "F" -> "f" [] c = "G" -> "g" [] c = "H" -> "h"
    [] c = "I" -> "i" [] c = "J" -> "j" [] c = "K" -> "k" [] c = "L" -> "l"
    [] c = "M" -> "m" [] c = "N" -> "n" [] c = "O" -> "o" [] c = "P" -> "p"
    [] c = "Q" -> "q" [] c = "R" -> "r" [] c = "S" -> "s" [] c = "T" -> "t"
    [] c = "U" -> "u" [] c = "V" -> "v" [] c = "W" -> "w" [] c = "X" -> "x"
    [] c = "Y" -> "y" [] c = "Z" -> "z" [] OTHER -> c

\* str.lower() on a word
Lower(w) == [i \in 1..Len(w) |-> LowerChar(w[i])]

\* str.isalpha(): non-empty and every character a letter
IsAlpha(w) == Len(w) > 0 /\ \A i \in 1..Len(w) : w[i] \in LowerLetters \cup UpperLetters

\* the python string made of the characters of w
RECURSIVE Str(_)
Str(w) == IF w = <<>> THEN "" ELSE w[1] \o Str(Tail(w))

\* s[0:n] : the first n characters, fewer when s is shorter
Slice(s, n) == SubSeq(s, 1, IF n < Len(s) THEN n ELSE Len(s))

\* ---------------------------------------------------------- generic helpers
Range(f) == {f[i] : i \in DOMAIN f}

\* sequences over S of length exactly n
SeqsOfLen(S, n) == [1..n -> S]

\* all orderings of the finite set S, as sequences without repetition
Orderings(S) == {p \in [1..Cardinality(S) -> S] : Range(p) = S}

RECURSIVE SumSeq(_)
SumSeq(s) == IF s = <<>> THEN 0 ELSE s[1] + SumSeq(Tail(s))

\* d[key] = value on a python dict
DictSet(d, key, value) ==
  [k \in DOMAIN d \cup {key} |-> IF k = key THEN value ELSE d[k]]

EmptyDict == <<>>

\* ------------------------------------------------------------- fractions
\* a score is the fraction <<numerator, denominator>> in lowest terms
RECURSIVE GCD(_, _)
GCD(a, b) == IF b = 0 THEN a ELSE GCD(b, a % b)

Frac(n, d) == <<n \div GCD(n, d), d \div GCD(n, d)>>

Zero == <<0, 1>>
One == <<1, 1>>

FracAdd(x, y) == Frac(x[1] * y[2] + y[1] * x[2], x[2] * y[2])
FracMul(x, y) == Frac(x[1] * y[1], x[2] * y[2])
FracDiv(x, y) == Frac(x[1] * y[2], x[2] * y[1])

RECURSIVE FracSum(_)
FracSum(s) == IF s = <<>> THEN Zero ELSE FracAdd(Head(s), FracSum(Tail(s)))

\* ------------------------------------------------------------------ inputs
\* The key of the out-of-vocabulary entry of token2int (dataset.py:115, 210)
OovChars == <<"o","o","v","_","w","o","r","d">>

\* The words a document may contain: a lower-case word, an upper-case word
\* and the text of the out-of-vocabulary key itself
RawWords == {<<"a">>, <<"A">>, OovChars}

\* The file names of the corpus directory, in os.listdir order
FileNames == << <<"1",".","a",".","t">>, <<"2",".","t">>, <<"2",".","b",".","t">> >>

\* A csv cell is its text; pandas reads an empty cell as null
NullCell == <<>>
SubjCells == {NullCell, <<"1">>, <<"2">>}
CodeCells == {NullCell, <<"2","5","0",".","0","0">>, <<"2","5","0","1">>}

\* The rows a code table may hold: complete rows, a row without a subject
\* and a row without a code
Rows ==
  [subj : SubjCells \ {NullCell}, code : CodeCells \ {NullCell}]
    \cup {[subj |-> NullCell, code |-> <<"2","5","0",".","0","0">>],
          [subj |-> <<"1">>, code |-> NullCell]}

\* The three index_codes calls of __init__: file, prefix, num_digits
CodeTables ==
  << [file |-> "DIAGNOSES_ICD.csv", prefix |-> "diag", num_digits |-> 3],
     [file |-> "PROCEDURES_ICD.csv", prefix |-> "proc", num_digits |-> 2],
     [file |-> "CPTEVENTS.csv", prefix |-> "cpt", num_digits |-> 5] >>

\* The files of the corpus directory when the documents vary
CorpusFiles == SubSeq(FileNames, 1, 2)

\* The code tables when the documents vary: no rows; one diagnosis of
\* subject 1; a diagnosis shared by subjects 1 and 2 and a cpt event of
\* subject 2
FewFrames ==
  { << <<>>, <<>>, <<>> >>,
    << <<[subj |-> <<"1">>, code |-> <<"2","5","0",".","0","0">>]>>, <<>>, <<>> >>,
    << <<[subj |-> <<"1">>, code |-> <<"2","5","0",".","0","0">>],
         [subj |-> <<"2">>, code |-> <<"2","5","0","1">>]>>,
       <<>>,
       <<[subj |-> <<"2">>, code |-> <<"2","5","0","1">>]>> >> }

\* the corpus in which every file of names holds the one word 'a'
OneWordCorpus(names) ==
  [i \in 1..Len(names) |-> [name |-> names[i], text |-> << <<"a">> >>]]

\* texts of at most n words
Texts(n) == UNION {SeqsOfLen(RawWords, k) : k \in 0..n}

\* corpus directories holding some of the files named in names, listed in
\* that order, with at most budget words in all
RECURSIVE Corpora(_, _)
Corpora(names, budget) ==
  IF names = <<>> THEN {<<>>}
  ELSE Corpora(Tail(names), budget) \cup
       UNION {{<<[name |-> Head(names), text |-> t]>> \o rest :
                 rest \in Corpora(Tail(names), budget - Len(t))} : t \in Texts(budget)}

\* the contents of the code files CodeTables[k..], with at most budget rows in all
RECURSIVE FramesFrom(_, _)
FramesFrom(k, budget) ==
  IF k > Len(CodeTables) THEN {<<>>}
  ELSE UNION {{<<f>> \o rest : rest \in FramesFrom(k + 1, budget - Len(f))} :
                f \in UNION {SeqsOfLen(Rows, n) : n \in 0..budget}}

\* ------------------------------------------------------------------- state
VARIABLES
  corpus,                \* corpus_path: the documents, in os.listdir order
  frames,                \* code_dir: the rows of the three code files
  min_token_freq, max_tokens_in_file, min_examples_per_code, use_cuis,
  token2int, code2int, subj2codes,     \* the provider's dictionaries
  subj_order,            \* insertion order of the keys of subj2codes
  alphabet_file,         \* lines of Model/alphabet.txt
  codes_file,            \* lines of Model/codes.txt
  indexed,               \* number of index_codes calls made by __init__
  pc,                    \* position in __init__ / load
  maxlen, tokens_as_set, \* arguments of the last load call
  examples, codes,       \* the two lists load returns
  val_y,                 \* cnn.py: the label rows of the validation split
  distribution,          \* cnn.py: the thresholded predictions for val_x
  stdout,                \* cnn.py: the two lines printed at 175 and 179
  results_file           \* cnn.py: lines of Model/results.txt

cnnvars == <<val_y, distribution, stdout, results_file>>

vars == <<corpus, frames, min_token_freq, max_tokens_in_file,
          min_examples_per_code, use_cuis, token2int, code2int, subj2codes,
          subj_order, alphabet_file, codes_file, indexed, pc, maxlen,
          tokens_as_set, examples, codes, cnnvars>>

inputs == <<corpus, frames, min_token_freq, max_tokens_in_file,
            min_examples_per_code, use_cuis>>

\* float('inf'), the default maxlen of load
Inf == -1

\* ---------------------------------------------------------------- tokenizer
\* read_tokens rejecting a file of exactly max_tokens tokens (>= for >)
read_tokens_ge(doc, max_tokens) ==
  LET text == [i \in 1..Len(doc.text) |-> Lower(doc.text[i])]
      kept == SelectSeq(text, IsAlpha)
      tokens == [i \in 1..Len(kept) |-> Str(kept[i])]
  IN  IF Len(tokens) >= max_tokens
        THEN [none |-> TRUE, tokens |-> <<>>]
        ELSE [none |-> FALSE, tokens |-> tokens]

\* read_tokens: lower-case, split, keep alphabetic words; None when too long
read_tokens(doc, max_tokens) ==
  LET text == [i \in 1..Len(doc.text) |-> Lower(doc.text[i])]
      kept == SelectSeq(text, IsAlpha)
      tokens == [i \in 1..Len(kept) |-> Str(kept[i])]
  IN  IF Len(tokens) > max_tokens
        THEN [none |-> TRUE, tokens |-> <<>>]
        ELSE [none |-> FALSE, tokens |-> tokens]

\* read_cuis: split only; None when too long
read_cuis(doc, max_tokens) ==
  LET tokens == [i \in 1..Len(doc.text) |-> Str(doc.text[i])]
  IN  IF Len(tokens) > max_tokens
        THEN [none |-> TRUE, tokens |-> <<>>]
        ELSE [none |-> FALSE, tokens |-> tokens]

\* the branch on use_cuis of make_and_write_token_alphabet and load
ReadFile(doc, cuis, max_tokens) ==
  IF cuis THEN read_cuis(doc, max_tokens) ELSE read_tokens(doc, max_tokens)

\* ------------------------------------------------------------------ Counter
CounterKeys(c) == {c[i][1] : i \in DOMAIN c}

CounterGet(c, key) ==
  IF key \in CounterKeys(c)
    THEN c[CHOOSE i \in DOMAIN c : c[i][1] = key][2]
    ELSE 0

\* Counter.update(list): one more for each element, new keys appended
RECURSIVE CounterUpdate(_, _)
CounterUpdate(c, list) ==
  IF list = <<>> THEN c
  ELSE LET key == Head(list)
           c1 == IF key \in CounterKeys(c)
                   THEN [i \in DOMAIN c |->
                          IF c[i][1] = key THEN <<key, c[i][2] + 1>> ELSE c[i]]
                   ELSE Append(c, <<key, 1>>)
       IN  CounterUpdate(c1, Tail(list))

\* sorted(items, key=count, reverse=True): stable insertion of one item
InsertByCount(sorted, item) ==
  LET before == SelectSeq(sorted, LAMBDA x : x[2] >= item[2])
      after == SelectSeq(sorted, LAMBDA x : x[2] < item[2])
  IN  before \o <<item>> \o after

\* Counter.most_common(): by descending count, equal counts in insertion order
RECURSIVE MostCommonAcc(_, _)
MostCommonAcc(c, sorted) ==
  IF c = <<>> THEN sorted
  ELSE MostCommonAcc(Tail(c), InsertByCount(sorted, Head(c)))

most_common(c) == MostCommonAcc(c, <<>>)

\* ------------------------------------------- make_and_write_token_alphabet
\* lines 101-110: count the tokens of the files that are not rejected
RECURSIVE CountTokens(_, _, _, _)
CountTokens(docs, cuis, max_tokens, token_counts) ==
  IF docs = <<>> THEN token_counts
  ELSE LET file_ngram_list == ReadFile(Head(docs), cuis, max_tokens)
       IN  IF file_ngram_list.none
             THEN CountTokens(Tail(docs), cuis, max_tokens, token_counts)
             ELSE CountTokens(Tail(docs), cuis, max_tokens,
                              CounterUpdate(token_counts, file_ngram_list.tokens))

\* lines 117-121: ids in most_common order to the tokens above the threshold
RECURSIVE AssignTokenIds(_, _, _, _)
AssignTokenIds(items, t2i, index, min_freq) ==
  IF items = <<>> THEN t2i
  ELSE LET token == Head(items)[1]
           count == Head(items)[2]
       IN  IF count > min_freq
             THEN AssignTokenIds(Tail(items), DictSet(t2i, token, index),
                                 index + 1, min_freq)
             ELSE AssignTokenIds(Tail(items), t2i, index, min_freq)

\* the token counts of the corpus (token_counts at line 112)
TokenCounts == CountTokens(corpus, use_cuis, max_tokens_in_file, <<>>)

MakeAndWriteTokenAlphabet ==
  /\ pc = "tokens"
  /\ LET token_counts == TokenCounts
     IN  /\ alphabet_file' = most_common(token_counts)
         /\ token2int' = AssignTokenIds(most_common(token_counts),
                                        DictSet(token2int, Str(OovChars), 0),
                                        1, min_token_freq)
  /\ pc' = "index"
  /\ UNCHANGED <<inputs, code2int, subj2codes, subj_order, codes_file,
                 indexed, maxlen, tokens_as_set, examples, codes, cnnvars>>

\* ------------------------------------------------------------- index_codes
\* IndexRow replacing the subject's set instead of adding to it
IndexRowOverwrite(st, row, prefix, num_digits) ==
  IF row.subj = NullCell THEN st
  ELSE IF row.code = NullCell THEN st
  ELSE LET subj_id == Str(row.subj)
           short_code == prefix \o "_" \o Str(Slice(row.code, num_digits))
       IN  [map |-> DictSet(st.map, subj_id, {short_code}),
            order |-> IF subj_id \in DOMAIN st.map THEN st.order
                      ELSE Append(st.order, subj_id)]

\* IndexRow without the test for a null code
IndexRowNoNullCheck(st, row, prefix, num_digits) ==
  IF row.subj = NullCell THEN st
  ELSE LET subj_id == Str(row.subj)
           short_code == prefix \o "_" \o Str(Slice(row.code, num_digits))
           old == IF subj_id \in DOMAIN st.map THEN st.map[subj_id] ELSE {}
       IN  [map |-> DictSet(st.map, subj_id, old \cup {short_code}),
            order |-> IF subj_id \in DOMAIN st.map THEN st.order
                      ELSE Append(st.order, subj_id)]

\* lines 138-145 for one row
IndexRow(st, row, prefix, num_digits) ==
  IF row.subj = NullCell THEN st
  ELSE IF row.code = NullCell THEN st
  ELSE LET subj_id == Str(row.subj)
           short_code == prefix \o "_" \o Str(Slice(row.code, num_digits))
           old == IF subj_id \in DOMAIN st.map THEN st.map[subj_id] ELSE {}
       IN  [map |-> DictSet(st.map, subj_id, old \cup {short_code}),
            order |-> IF subj_id \in DOMAIN st.map THEN st.order
                      ELSE Append(st.order, subj_id)]

\* lines 137-145: the loop over the rows of one table
RECURSIVE index_codes(_, _, _, _)
index_codes(st, frame, prefix, num_digits) ==
  IF frame = <<>> THEN st
  ELSE index_codes(IndexRow(st, Head(frame), prefix, num_digits),
                   Tail(frame), prefix, num_digits)

\* the next of the three calls of __init__ (lines 50-67)
IndexCodes ==
  /\ pc = "index"
  /\ indexed < Len(CodeTables)
  /\ LET k == indexed + 1
         st == index_codes([map |-> subj2codes, order |-> subj_order],
                           frames[k], CodeTables[k].prefix,
                           CodeTables[k].num_digits)
     IN  /\ subj2codes' = st.map
         /\ subj_order' = st.order
         /\ indexed' = k
         /\ pc' = IF k = Len(CodeTables) THEN "code_alphabet" ELSE "index"
  /\ UNCHANGED <<inputs, token2int, code2int, alphabet_file, codes_file,
                 maxlen, tokens_as_set, examples, codes, cnnvars>>

\* -------------------------------------------------------- make_code_alphabet
\* lines 152-153: one Counter.update per subject, in dict order; iter[s] is
\* the order in which the set of subject s is iterated
RECURSIVE CountCodes(_, _, _)
CountCodes(subjs, iter, code_counter) ==
  IF subjs = <<>> THEN code_counter
  ELSE CountCodes(Tail(subjs), iter, CounterUpdate(code_counter, iter[Head(subjs)]))

\* AssignCodeIds with count >= min_examples for count > min_examples
RECURSIVE AssignCodeIdsGe(_, _, _, _)
AssignCodeIdsGe(items, c2i, index, min_examples) ==
  IF items = <<>> THEN c2i
  ELSE LET code == Head(items)[1]
           count == Head(items)[2]
       IN  IF count >= min_examples
             THEN AssignCodeIdsGe(Tail(items), DictSet(c2i, code, index),
                                  index + 1, min_examples)
             ELSE AssignCodeIdsGe(Tail(items), c2i, index, min_examples)

\* lines 159-163: ids from 0 in most_common order to the frequent codes
RECURSIVE AssignCodeIds(_, _, _, _)
AssignCodeIds(items, c2i, index, min_examples) ==
  IF items = <<>> THEN c2i
  ELSE LET code == Head(items)[1]
           count == Head(items)[2]
       IN  IF count > min_examples
             THEN AssignCodeIds(Tail(items), DictSet(c2i, code, index),
                                index + 1, min_examples)
             ELSE AssignCodeIds(Tail(items), c2i, index, min_examples)

\* the iteration orders python may use for the sets of subj2codes
SetIterations ==
  {iter \in [DOMAIN subj2codes ->
               UNION {Orderings(subj2codes[s]) : s \in DOMAIN subj2codes}] :
     \A s \in DOMAIN subj2codes : Range(iter[s]) = subj2codes[s]}

MakeCodeAlphabet ==
  /\ pc = "code_alphabet"
  /\ \E iter \in SetIterations :
       LET code_counter == CountCodes(subj_order, iter, <<>>)
       IN  /\ codes_file' = most_common(code_counter)
           /\ code2int' = AssignCodeIds(most_common(code_counter), code2int,
                                        0, min_examples_per_code)
  /\ pc' = "ready"
  /\ UNCHANGED <<inputs, token2int, subj2codes, subj_order, alphabet_file,
                 indexed, maxlen, tokens_as_set, examples, codes, cnnvars>>

\* ---------------------------------------------------------------------- load
\* the characters before the last '.', for those before the first
BeforeLastDot(name) ==
  LET dots == {i \in 1..Len(name) : name[i] = "."}
  IN  IF dots = {} THEN name
      ELSE SubSeq(name, 1, (CHOOSE i \in dots : \A j \in dots : j <= i) - 1)

\* file.split('.')[0] : the characters before the first '.'
RECURSIVE BeforeFirstDot(_)
BeforeFirstDot(name) ==
  IF name = <<>> \/ Head(name) = "." THEN <<>>
  ELSE <<Head(name)>> \o BeforeFirstDot(Tail(name))

\* lines 189-193: the label vector of a subject; position j holds code id j - 1
CodeVec(subj_id) ==
  [j \in 1..Cardinality(DOMAIN code2int) |->
     IF \E icd9_category \in subj2codes[subj_id] :
          /\ icd9_category \in DOMAIN code2int
          /\ code2int[icd9_category] = j - 1
       THEN 1 ELSE 0]

\* lines 206-210: ids of the tokens, the id of 'oov_word' for unknown ones
TokenIds(file_ngram_list) ==
  [i \in 1..Len(file_ngram_list) |->
     IF file_ngram_list[i] \in DOMAIN token2int
       THEN token2int[file_ngram_list[i]]
       ELSE token2int[Str(OovChars)]]

\* lines 212-213
TruncateLast(example, ml) ==
  IF ml # Inf /\ Len(example) > ml
    THEN SubSeq(example, Len(example) - ml + 1, Len(example))
    ELSE example

Truncate(example, ml) ==
  IF ml # Inf /\ Len(example) > ml THEN SubSeq(example, 1, ml) ELSE example

\* lines 203-204: the token list, or the tokens of set(list) in some order
NgramLists(tokens, as_set) ==
  IF as_set THEN Orderings(Range(tokens)) ELSE {tokens}

\* lines 174-215 for one file: the pairs <<example, code_vec>> the file may
\* add, as a set of sequences of length 0 (skipped) or 1
LoadFile(doc, ml, as_set) ==
  LET file_ngram_list == ReadFile(doc, use_cuis, max_tokens_in_file)
      subj_id == Str(BeforeFirstDot(doc.name))
  IN  IF file_ngram_list.none THEN {<<>>}
      ELSE IF subj_id \notin DOMAIN subj2codes THEN {<<>>}
      ELSE IF Cardinality(subj2codes[subj_id]) = 0 THEN {<<>>}
      ELSE IF SumSeq(CodeVec(subj_id)) = 0 THEN {<<>>}
      ELSE {<< <<Truncate(TokenIds(l), ml), CodeVec(subj_id)>> >> :
              l \in NgramLists(file_ngram_list.tokens, as_set)}

\* lines 173-217: the loop over the files
RECURSIVE LoadFiles(_, _, _)
LoadFiles(docs, ml, as_set) ==
  IF docs = <<>> THEN {<<>>}
  ELSE {first \o rest : first \in LoadFile(Head(docs), ml, as_set),
                        rest \in LoadFiles(Tail(docs), ml, as_set)}

\* the maxlen arguments tried: float('inf') and 1..MaxMaxlen
MaxLens == {Inf} \cup 1..MaxMaxlen

\* every caller loads once, after construction (cnn.py:115, dan.py:105)
Load ==
  /\ pc = "ready"
  /\ \E ml \in MaxLens, as_set \in BOOLEAN :
       \E pairs \in LoadFiles(corpus, ml, as_set) :
         /\ maxlen' = ml
         /\ tokens_as_set' = as_set
         /\ examples' = [i \in 1..Len(pairs) |-> pairs[i][1]]
         /\ codes' = [i \in 1..Len(pairs) |-> pairs[i][2]]
  /\ pc' = "loaded"
  /\ UNCHANGED <<inputs, token2int, code2int, subj2codes, subj_order,
                 alphabet_file, codes_file, indexed, cnnvars>>

\* ------------------------------------------------------- cnn.py: evaluation
\* sklearn.metrics as cnn.py calls it on two binary indicator matrices:
\* column counts, a ratio with a zero denominator is 0
TruePositives(y_true, y_pred, j) ==
  Cardinality({i \in 1..Len(y_true) : y_true[i][j] = 1 /\ y_pred[i][j] = 1})

PredictedPositives(y_pred, j) ==
  Cardinality({i \in 1..Len(y_pred) : y_pred[i][j] = 1})

ActualPositives(y_true, j) ==
  Cardinality({i \in 1..Len(y_true) : y_true[i][j] = 1})

PrfDivide(numerator, denominator) ==
  IF denominator = 0 THEN Zero ELSE Frac(numerator, denominator)

\* F = PR / (P + R), the factor 2 left out
FScoreHalf(precision, recall) ==
  IF FracAdd(precision, recall) = Zero THEN Zero
  ELSE FracDiv(FracMul(precision, recall), FracAdd(precision, recall))

\* F1 = 2PR / (P + R), 0 when P + R = 0
FScore(precision, recall) ==
  IF FracAdd(precision, recall) = Zero THEN Zero
  ELSE FracDiv(FracMul(<<2, 1>>, FracMul(precision, recall)),
               FracAdd(precision, recall))

\* the columns of the label matrices: one per code of code2int
Labels == 1..Cardinality(DOMAIN code2int)

Mean(scores) == FracDiv(FracSum(scores), <<Len(scores), 1>>)

\* precision_score(y_true, y_pred, average=...)
precision_score(y_true, y_pred, average) ==
  LET each == [j \in Labels |->
                 PrfDivide(TruePositives(y_true, y_pred, j),
                           PredictedPositives(y_pred, j))]
  IN  CASE average = "macro" -> Mean(each)
        [] average = "micro" ->
             PrfDivide(SumSeq([j \in Labels |-> TruePositives(y_true, y_pred, j)]),
                       SumSeq([j \in Labels |-> PredictedPositives(y_pred, j)]))
        [] OTHER -> each

\* recall_score(y_true, y_pred, average=...)
recall_score(y_true, y_pred, average) ==
  LET each == [j \in Labels |->
                 PrfDivide(TruePositives(y_true, y_pred, j),
                           ActualPositives(y_true, j))]
  IN  CASE average = "macro" -> Mean(each)
        [] average = "micro" ->
             PrfDivide(SumSeq([j \in Labels |-> TruePositives(y_true, y_pred, j)]),
                       SumSeq([j \in Labels |-> ActualPositives(y_true, j)]))
        [] OTHER -> each

\* f1_score(y_true, y_pred, average=...)
f1_score(y_true, y_pred, average) ==
  LET p_each == precision_score(y_true, y_pred, "None")
      r_each == recall_score(y_true, y_pred, "None")
      each == [j \in Labels |-> FScore(p_each[j], r_each[j])]
  IN  CASE average = "macro" -> Mean(each)
        [] average = "micro" ->
             FScore(precision_score(y_true, y_pred, "micro"),
                    recall_score(y_true, y_pred, "micro"))
        [] OTHER -> each

\* the sigmoid outputs tried, in hundredths: just below and at the threshold
Probs == {49, 50}

\* lines 169-170: below 0.5 becomes 0, the rest 1
Threshold(prob) == IF prob < 50 THEN 0 ELSE 1

\* the index sets train_test_split may give the validation part: line 120
\* needs a non-empty training part, line 162 leaves when test_size is 0
ValidationSplits(n) == {v \in SUBSET (1..n) : v # {} /\ v # 1..n}

\* the elements of a sequence at the indices of v, in order
RECURSIVE Pick(_, _, _)
Pick(s, v, i) ==
  IF i > Len(s) THEN <<>>
  ELSE (IF i \in v THEN <<s[i]>> ELSE <<>>) \o Pick(s, v, i + 1)

\* cnn.py lines 108-119: the provider in words mode, load(tokens_as_set=False),
\* train_test_split; only val_y reaches the evaluation
Split ==
  /\ pc = "loaded"
  /\ ~use_cuis /\ ~tokens_as_set /\ maxlen = Inf
  /\ \E v \in ValidationSplits(Len(codes)) : val_y' = Pick(codes, v, 1)
  /\ pc' = "split"
  /\ UNCHANGED <<inputs, token2int, code2int, subj2codes, subj_order,
                 alphabet_file, codes_file, indexed, maxlen, tokens_as_set,
                 examples, codes, distribution, stdout, results_file>>

\* cnn.py lines 166-170: the trained model's output for val_x, thresholded
Predict ==
  /\ pc = "split"
  /\ \E probs \in [1..Len(val_y) -> [Labels -> Probs]] :
       distribution' = [i \in 1..Len(val_y) |->
                          [j \in Labels |-> Threshold(probs[i][j])]]
  /\ pc' = "predicted"
  /\ UNCHANGED <<inputs, token2int, code2int, subj2codes, subj_order,
                 alphabet_file, codes_file, indexed, maxlen, tokens_as_set,
                 examples, codes, val_y, stdout, results_file>>

\* line 182: the dictionary from id to code
int2code == [index \in {code2int[c] : c \in DOMAIN code2int} |->
               CHOOSE c \in DOMAIN code2int : code2int[c] = index]

\* cnn.py lines 172-186: f1 is assigned at 172 and again at 176; line 184
\* writes the value it holds then
Report ==
  /\ pc = "predicted"
  /\ LET f1_172 == f1_score(val_y, distribution, "macro")
         p_173 == precision_score(val_y, distribution, "macro")
         r_174 == recall_score(val_y, distribution, "macro")
         f1_176 == f1_score(val_y, distribution, "micro")
         p_177 == precision_score(val_y, distribution, "micro")
         r_178 == recall_score(val_y, distribution, "micro")
         f1_scores == f1_score(val_y, distribution, "None")
     IN  /\ stdout' = << [average |-> "macro", precision |-> p_173,
                          recall |-> r_174, f1 |-> f1_172],
                         [average |-> "micro", precision |-> p_177,
                          recall |-> r_178, f1 |-> f1_176] >>
         /\ results_file' =
              << <<"macro", f1_176>> >> \o
              [index \in 1..Len(f1_scores) |->
                 <<int2code[index - 1], f1_scores[index]>>]
  /\ pc' = "reported"
  /\ UNCHANGED <<inputs, token2int, code2int, subj2codes, subj_order,
                 alphabet_file, codes_file, indexed, maxlen, tokens_as_set,
                 examples, codes, val_y, distribution>>

\* -------------------------------------------------------------- specification
\* DatasetProvider.__init__ lines 27-36, for the given ranges of its arguments
InitWith(corpora, framesets, token_freqs, max_tokens, min_examples, modes) ==
  /\ corpus \in corpora
  /\ frames \in framesets
  /\ min_token_freq \in token_freqs
  /\ max_tokens_in_file \in max_tokens
  /\ min_examples_per_code \in min_examples
  /\ use_cuis \in modes
  /\ token2int = EmptyDict
  /\ code2int = EmptyDict
  /\ subj2codes = EmptyDict
  /\ subj_order = <<>>
  /\ alphabet_file = <<>>
  /\ codes_file = <<>>
  /\ indexed = 0
  /\ pc = "tokens"
  /\ maxlen = Inf
  /\ tokens_as_set = TRUE
  /\ examples = <<>>
  /\ codes = <<>>
  /\ val_y = <<>>
  /\ distribution = <<>>
  /\ stdout = <<>>
  /\ results_file = <<>>

\* varied documents and thresholds, few code tables
Init ==
  InitWith(Corpora(CorpusFiles, MaxWords), FewFrames,
           0..MaxMinTokenFreq, 1..MaxMaxTokens, 0..MaxMinExamples, BOOLEAN)

\* varied code tables, one-word documents, words mode
InitCodes ==
  InitWith({OneWordCorpus(CorpusFiles)}, FramesFrom(1, MaxRows),
           {0}, {1}, 0..MaxMinExamples, {FALSE})

Next ==
  \/ MakeAndWriteTokenAlphabet
  \/ IndexCodes
  \/ MakeCodeAlphabet
  \/ Load

Spec == Init /\ [][Next]_vars

SpecCodes == InitCodes /\ [][Next]_vars

\* cnn.py run on one-word documents with varied code tables
InitEval ==
  InitWith({OneWordCorpus(FileNames)}, FramesFrom(1, EvalRows),
           {0}, {1}, 0..MaxMinExamples, {FALSE})

NextCnn ==
  \/ Next
  \/ Split
  \/ Predict
  \/ Report

SpecEval == InitEval /\ [][NextCnn]_vars

\* ====================================================================
\* Properties.  The corpus is described here from the documents themselves,
\* not through the provider's counters.
\* ====================================================================

\* the token a word becomes in the provider's mode
TokenOf(word) == Str(IF use_cuis THEN word ELSE Lower(word))

\* a word survives the mode's filtering
Survives(word) == use_cuis \/ IsAlpha(Lower(word))

\* tokenized length of a document after the mode's filtering
TokenizedLen(doc) ==
  Cardinality({i \in 1..Len(doc.text) : Survives(doc.text[i])})

TooLong(doc) == TokenizedLen(doc) > max_tokens_in_file

\* occurrences of a token in one document
OccIn(doc, token) ==
  Cardinality({i \in 1..Len(doc.text) :
                 Survives(doc.text[i]) /\ TokenOf(doc.text[i]) = token})

\* corpus count of a token, summed over the documents that are not rejected
CorpusCount(token) ==
  SumSeq([d \in 1..Len(corpus) |->
            IF TooLong(corpus[d]) THEN 0 ELSE OccIn(corpus[d], token)])

\* every token the words of RawWords can become
AllTokens == {Str(w) : w \in RawWords} \cup {Str(Lower(w)) : w \in RawWords}

\* tokens observed in the documents that are not rejected
ObservedTokens == {token \in AllTokens : CorpusCount(token) > 0}

\* the subject a file name stands for
SubjectOf(doc) ==
  LET dots == {i \in 1..Len(doc.name) : doc.name[i] = "."}
      stop == IF dots = {} THEN Len(doc.name) + 1
              ELSE CHOOSE i \in dots : \A j \in dots : i <= j
  IN  Str(SubSeq(doc.name, 1, stop - 1))

\* the documents load keeps, in corpus order
Retained(doc) ==
  /\ ~TooLong(doc)
  /\ SubjectOf(doc) \in DOMAIN subj2codes
  /\ subj2codes[SubjectOf(doc)] \cap DOMAIN code2int # {}

RetainedDocs == SelectSeq(corpus, Retained)

\* the tokens of a document after the mode's filtering, in order
TokensOf(doc) ==
  LET kept == SelectSeq(doc.text, Survives)
  IN  [i \in 1..Len(kept) |-> TokenOf(kept[i])]

AlphabetBuilt == pc # "tokens"

\* C1: after make_and_write_token_alphabet every token whose corpus count
\* is <= min_token_freq is not a key of token2int, and load appends id 0
\* for every token that is not a key of token2int.
C1_RareTokensAbsentAndZero ==
  /\ AlphabetBuilt =>
       \A token \in ObservedTokens :
         CorpusCount(token) <= min_token_freq => token \notin DOMAIN token2int
  /\ (pc = "loaded" /\ ~tokens_as_set /\ maxlen = Inf) =>
       \A k \in 1..Len(examples) :
         \A i \in 1..Len(examples[k]) :
           TokensOf(RetainedDocs[k])[i] \notin DOMAIN token2int
             => examples[k][i] = 0

\* C2: after make_and_write_token_alphabet id 0 is held only by the
\* out-of-vocabulary key and by no token observed in the corpus, and the
\* ids of the observed tokens are pairwise distinct and exactly 1..n, n the
\* number of tokens with count > min_token_freq.
C2_IdZeroReservedIdsContiguous ==
  AlphabetBuilt =>
    LET real == ObservedTokens \cap DOMAIN token2int
        n == Cardinality({t \in ObservedTokens : CorpusCount(t) > min_token_freq})
    IN  /\ {k \in DOMAIN token2int : token2int[k] = 0} = {Str(OovChars)}
        /\ \A t \in ObservedTokens :
             t \in DOMAIN token2int => token2int[t] # 0
        /\ \A a, b \in real : a # b => token2int[a] # token2int[b]
        /\ {token2int[t] : t \in real} = 1..n

\* C3: every pair load returns has a non-empty token-id sequence and a label
\* vector with at least one bit set.
C3_PairsNonEmptyAndLabelled ==
  pc = "loaded" =>
    /\ Len(examples) = Len(codes)
    /\ \A k \in 1..Len(examples) :
         Len(examples[k]) > 0 /\ SumSeq(codes[k]) >= 1

\* C10: load never hands an empty dataset to its caller (it would end in a
\* fatal EmptyDatasetError instead of reaching the return statement).
C10_NoEmptyDatasetReturned ==
  (pc = "loaded" /\ corpus # <<>>) => Len(examples) > 0

\* C5: a document whose tokenized length exceeds max_tokens_in_file adds
\* nothing to the token counts and yields no pair in load; a document of
\* exactly max_tokens_in_file tokens is kept; the documents after a rejected
\* one are still counted and loaded.
C5_RejectedDocsContributeNothing ==
  /\ AlphabetBuilt =>
       /\ CounterKeys(alphabet_file) = ObservedTokens
       /\ \A token \in AllTokens :
            CounterGet(alphabet_file, token) = CorpusCount(token)
  /\ pc = "loaded" =>
       /\ Len(examples) = Len(RetainedDocs)
       /\ (~tokens_as_set /\ maxlen = Inf) =>
            \A k \in 1..Len(examples) :
              Len(examples[k]) = TokenizedLen(RetainedDocs[k])

\* C5 witness: a rejected first document, then a document of exactly
\* max_tokens_in_file tokens that is counted and loaded
C5_Witness ==
  /\ pc = "loaded"
  /\ Len(corpus) = 2
  /\ TooLong(corpus[1])
  /\ TokenizedLen(corpus[2]) = max_tokens_in_file
  /\ alphabet_file # <<>>
  /\ Len(examples) = 1
  /\ Len(examples[1]) = max_tokens_in_file

\* ------------------------------------------------------------ code tables
\* the first n characters of a raw code, all of it when it is shorter
FirstChars(raw, n) == [i \in 1..(IF Len(raw) < n THEN Len(raw) ELSE n) |-> raw[i]]

\* '<prefix>_<first num_digits characters>' for a row of table k
ExpectedCode(k, row) ==
  CodeTables[k].prefix \o "_" \o Str(FirstChars(row.code, CodeTables[k].num_digits))

\* the rows of table k with a subject and a code
ValidRows(k) ==
  {r \in Range(frames[k]) : r.subj # NullCell /\ r.code # NullCell}

\* the codes the rows of table k give subject s
ExpectedCodes(k, s) ==
  {ExpectedCode(k, r) : r \in {v \in ValidRows(k) : Str(v.subj) = s}}

Tables == 1..Len(CodeTables)

AllSubjects == {Str(c) : c \in SubjCells \ {NullCell}}

AllCodes == UNION {{ExpectedCode(k, r) : r \in ValidRows(k)} : k \in Tables}

\* the distinct subjects with a row that gives the code
Holders(code) ==
  {s \in AllSubjects : \E k \in Tables : code \in ExpectedCodes(k, s)}

CodeAlphabetBuilt == pc \in {"ready", "loaded"}

\* C4: after make_code_alphabet a code is a key of code2int if and only if
\* the number of distinct subjects holding it is strictly greater than
\* min_examples_per_code; repeated rows of one subject count once.
C4_CodeKeptIffMoreSubjectsThanMin ==
  CodeAlphabetBuilt =>
    /\ DOMAIN code2int \subseteq AllCodes
    /\ \A code \in AllCodes :
         code \in DOMAIN code2int
           <=> Cardinality(Holders(code)) > min_examples_per_code

\* C4 witness: a code held by exactly min_examples_per_code >= 1 subjects is
\* left out, one held by min_examples_per_code + 1 subjects is kept
C4_Witness ==
  /\ CodeAlphabetBuilt
  /\ min_examples_per_code >= 1
  /\ \E c1, c2 \in AllCodes :
       /\ Cardinality(Holders(c1)) = min_examples_per_code
       /\ c1 \notin DOMAIN code2int
       /\ Cardinality(Holders(c2)) = min_examples_per_code + 1
       /\ c2 \in DOMAIN code2int

\* the code set of subject s before it has one
CodesOf(map, s) == IF s \in DOMAIN map THEN map[s] ELSE {}

\* C6: one index_codes call changes subj2codes by exactly the codes
\* '<prefix>_<first num_digits characters>' of the rows of its table that
\* have a subject and a code; rows with a null subject or a null code change
\* nothing; the same raw code under two namespaces gives two codes.
C6_IndexCodesAddsPrefixedCodes ==
  [][indexed' = indexed + 1 =>
       LET k == indexed'
       IN  /\ DOMAIN subj2codes' =
                DOMAIN subj2codes \cup {Str(r.subj) : r \in ValidRows(k)}
           /\ \A s \in DOMAIN subj2codes' :
                subj2codes'[s] = CodesOf(subj2codes, s) \cup ExpectedCodes(k, s)
           /\ \A j \in 1..(k - 1) : \A r1 \in ValidRows(j), r2 \in ValidRows(k) :
                (r1.subj = r2.subj /\ r1.code = r2.code)
                  => Cardinality(subj2codes'[Str(r2.subj)]) >= 2]_vars

\* C6 witness: subject 1 with raw code 250.00 in the diagnosis and the
\* procedure table, and a row without a code
C6_Witness ==
  /\ indexed = 2
  /\ \E i \in DOMAIN frames[1] : frames[1][i].code = NullCell
  /\ [subj |-> <<"1">>, code |-> <<"2","5","0",".","0","0">>] \in Range(frames[1])
  /\ [subj |-> <<"1">>, code |-> <<"2","5","0",".","0","0">>] \in Range(frames[2])
  /\ subj2codes = [s \in {"1"} |-> {"diag_250", "proc_25"}]

\* the three tables indexed in another order, from an empty provider
RECURSIVE IndexInOrder(_, _)
IndexInOrder(order, st) ==
  IF order = <<>> THEN st
  ELSE IndexInOrder(Tail(order),
                    index_codes(st, frames[Head(order)],
                                CodeTables[Head(order)].prefix,
                                CodeTables[Head(order)].num_digits))

\* subj2codes is the union of the three tables, whatever the order of the calls
UnionOfTables ==
  /\ DOMAIN subj2codes = {Str(r.subj) : r \in UNION {ValidRows(k) : k \in Tables}}
  /\ \A s \in DOMAIN subj2codes :
       subj2codes[s] = UNION {ExpectedCodes(k, s) : k \in Tables}
  /\ \A order \in Orderings(Tables) :
       IndexInOrder(order, [map |-> EmptyDict, order |-> <<>>]).map = subj2codes

\* C7: no step removes a subject or a code from subj2codes, and after the
\* diag, proc and cpt calls each subject's set is the union of the codes of
\* its rows in the three tables, independent of the order of the calls.
C7_SubjCodesGrowToUnion ==
  [][/\ \A s \in DOMAIN subj2codes :
          s \in DOMAIN subj2codes' /\ subj2codes[s] \subseteq subj2codes'[s]
     /\ (indexed = Len(CodeTables) - 1 /\ indexed' = Len(CodeTables))
          => UnionOfTables']_vars

\* C7 witness: each of the three tables gave subject 1 a code
C7_Witness ==
  /\ indexed = Len(CodeTables)
  /\ \A k \in Tables : ExpectedCodes(k, "1") # {}
  /\ Cardinality(subj2codes["1"]) = 3

\* ------------------------------------------------------------- evaluation
Reported == pc = "reported"

\* per-label F1 from the counts: 2tp / (2tp + fp + fn), 0 without positives
LabelF1(j) ==
  LET tp == Cardinality({i \in 1..Len(val_y) :
                           val_y[i][j] = 1 /\ distribution[i][j] = 1})
      fp == Cardinality({i \in 1..Len(val_y) :
                           val_y[i][j] = 0 /\ distribution[i][j] = 1})
      fn == Cardinality({i \in 1..Len(val_y) :
                           val_y[i][j] = 1 /\ distribution[i][j] = 0})
  IN  IF 2 * tp + fp + fn = 0 THEN Zero ELSE Frac(2 * tp, 2 * tp + fp + fn)

\* macro-averaged F1: the unweighted mean of the per-label values
MacroF1 ==
  FracDiv(FracSum([j \in Labels |-> LabelF1(j)]), <<Cardinality(Labels), 1>>)

\* the code with id j - 1
CodeWithId(id) == CHOOSE c \in DOMAIN code2int : code2int[c] = id

\* the lines after the first: one per label, in id order, code and F1
LabelLinesInIdOrder ==
  /\ Len(results_file) = 1 + Cardinality(DOMAIN code2int)
  /\ \A j \in Labels :
       results_file[j + 1] = <<CodeWithId(j - 1), LabelF1(j)>>

\* C8: the first line of the report is 'macro' with the macro-averaged F1,
\* followed by exactly one line per label of code2int, in id order, with the
\* label's code string and its per-label F1.
C8_ReportFirstLineIsMacroF1 ==
  Reported =>
    /\ results_file[1] = <<"macro", MacroF1>>
    /\ LabelLinesInIdOrder

\* the labels with a positive example among the evaluated rows
LabelsWithPositive == {j \in Labels : \E i \in 1..Len(val_y) : val_y[i][j] = 1}

PerfectPrediction == Reported /\ distribution = val_y

\* C9 as stated: with predictions equal to the true matrix every per-label
\* F1 and the macro and micro F1 are 1.0, also when a label has no positive
\* example among the evaluated rows.
C9_PerfectPredictionAllOnes ==
  PerfectPrediction =>
    /\ \A j \in Labels : results_file[j + 1][2] = One
    /\ stdout[1].f1 = One
    /\ stdout[2].f1 = One

\* C9 amended: with predictions equal to the true matrix, a label with a
\* positive example among the evaluated rows has F1 1.0 and one without has
\* F1 0.0; the micro F1 is 1.0 and the macro F1 is the share of the labels
\* that have a positive example.
C9_PerfectPredictionOnesWherePositive ==
  PerfectPrediction =>
    /\ \A j \in Labels :
         results_file[j + 1][2] = IF j \in LabelsWithPositive THEN One ELSE Zero
    /\ stdout[1].average = "macro"
    /\ stdout[1].f1 = Frac(Cardinality(LabelsWithPositive), Cardinality(Labels))
    /\ stdout[2].average = "micro"
    /\ stdout[2].f1 = One

\* C9 witness: a perfect prediction over two labels, one of them without a
\* positive example among the evaluated rows
C9_Witness ==
  /\ PerfectPrediction
  /\ Cardinality(Labels) = 2
  /\ Cardinality(LabelsWithPositive) = 1
  /\ stdout[1].f1 = <<1, 2>>

\* ------------------------------------------------------- order of token ids
\* the tokens of the documents that are not rejected, in traversal order
RECURSIVE TraversalFrom(_)
TraversalFrom(d) ==
  IF d > Len(corpus) THEN <<>>
  ELSE (IF TooLong(corpus[d]) THEN <<>> ELSE TokensOf(corpus[d]))
         \o TraversalFrom(d + 1)

Traversal == TraversalFrom(1)

\* position at which an observed token is first met in the traversal
FirstSeen(token) ==
  CHOOSE i \in 1..Len(Traversal) :
    /\ Traversal[i] = token
    /\ \A j \in 1..(i - 1) : Traversal[j] # token

\* a comes before b: more frequent, or as frequent and met first
Before(a, b) ==
  \/ CorpusCount(a) > CorpusCount(b)
  \/ CorpusCount(a) = CorpusCount(b) /\ FirstSeen(a) < FirstSeen(b)

\* C11: token ids are assigned in descending corpus-frequency order, ties
\* broken by first-encountered order, and the frequency table lists every
\* observed token, also those at or below the threshold, in that order.
C11_IdsByFrequencyThenFirstSeen ==
  AlphabetBuilt =>
    /\ \A a, b \in ObservedTokens \cap DOMAIN token2int :
         Before(a, b) => token2int[a] < token2int[b]
    /\ CounterKeys(alphabet_file) = ObservedTokens
    /\ Len(alphabet_file) = Cardinality(ObservedTokens)
    /\ \A i, j \in 1..Len(alphabet_file) :
         i < j => Before(alphabet_file[i][1], alphabet_file[j][1])

\* --------------------------------------------------- examples built by load
\* the id load appends for a token
IdOf(token) ==
  IF token \in DOMAIN token2int THEN token2int[token]
  ELSE token2int[Str(OovChars)]

IdsOf(tokens) == [i \in 1..Len(tokens) |-> IdOf(tokens[i])]

\* the first maxlen entries of a list of ids, all of them without a limit
FirstMaxlen(ids) ==
  [i \in 1..(IF maxlen = Inf \/ Len(ids) <= maxlen THEN Len(ids) ELSE maxlen)
     |-> ids[i]]

\* C12: with tokens_as_set false the example of a retained document is
\* the elementwise id mapping of its tokens in original order, cut to its
\* first maxlen ids when longer (truncated, never dropped); with
\* tokens_as_set true each distinct token of the document contributes
\* exactly one id, so that before truncation the example is as long as the
\* document has distinct tokens.
C12_ExampleIsIdMappingCutToMaxlen ==
  pc = "loaded" =>
    /\ Len(examples) = Len(RetainedDocs)
    /\ \A k \in 1..Len(RetainedDocs) :
         LET tokens == TokensOf(RetainedDocs[k])
         IN  IF ~tokens_as_set
               THEN examples[k] = FirstMaxlen(IdsOf(tokens))
               ELSE /\ \E o \in Orderings(Range(tokens)) :
                         examples[k] = FirstMaxlen(IdsOf(o))
                    /\ maxlen = Inf =>
                         Len(examples[k]) = Cardinality(Range(tokens))

\* a document of two tokens with different ids is retained and cut to its
\* first id, in list mode
C12_Witness ==
  /\ pc = "loaded" /\ ~tokens_as_set /\ maxlen # Inf
  /\ \E k \in 1..Len(RetainedDocs) :
       LET ids == IdsOf(TokensOf(RetainedDocs[k]))
       IN  /\ Len(ids) > maxlen
           /\ ids[1] # ids[Len(ids)]
           /\ k <= Len(examples) /\ Len(examples[k]) = maxlen

\* ------------------------------------------------- alignment of load's lists
\* the ids of code2int
CodeIds == {code2int[code] : code \in DOMAIN code2int}

\* the example load builds from a document, for some order of its tokens
\* when they are taken as a set
ExampleOf(doc, example) ==
  IF tokens_as_set
    THEN \E o \in Orderings(Range(TokensOf(doc))) :
           example = FirstMaxlen(IdsOf(o))
    ELSE example = FirstMaxlen(IdsOf(TokensOf(doc)))

\* C13: the two lists returned by load stay aligned: they have equal
\* length, the i-th example and the i-th label vector come from the same
\* document, every label vector has length len(code2int), bit j of the i-th
\* vector is 1 exactly when the code with id j is in the code set of the
\* subject named by the document's base name before its first '.', and the
\* code ids are exactly 0..len(code2int)-1.
C13_ExamplesAndLabelsAligned ==
  /\ CodeAlphabetBuilt => CodeIds = 0..(Cardinality(DOMAIN code2int) - 1)
  /\ pc = "loaded" =>
       /\ Len(examples) = Len(codes)
       /\ Len(codes) = Len(RetainedDocs)
       /\ \A i \in 1..Len(RetainedDocs) :
            LET doc == RetainedDocs[i]
            IN  /\ ExampleOf(doc, examples[i])
                /\ Len(codes[i]) = Cardinality(DOMAIN code2int)
                /\ \A j \in 0..(Len(codes[i]) - 1) :
                     /\ codes[i][j + 1] \in {0, 1}
                     /\ codes[i][j + 1] = 1 <=>
                          \E code \in subj2codes[SubjectOf(doc)] :
                            code \in DOMAIN code2int /\ code2int[code] = j

\* two documents whose names hold one and two dots are retained, with
\* different non-empty examples and different label vectors
C13_Witness ==
  /\ pc = "loaded"
  /\ Len(RetainedDocs) = 2
  /\ Len(examples) = 2 /\ Len(codes) = 2
  /\ examples[1] # <<>> /\ examples[2] # <<>>
  /\ examples[1] # examples[2]
  /\ codes[1] # codes[2]
  /\ \E i \in 1..2 :
       Cardinality({n \in 1..Len(RetainedDocs[i].name) :
                      RetainedDocs[i].name[n] = "."}) = 2

====
